---------------------------- MODULE Spec2Model ----------------------------
(***************************************************************************)
(* A model of the RFID warehouse positioning project:                      *)
(*   - simulation/uwb_sensor_model.py : UWBSensor.measure_distance,        *)
(*                                      UWBSensorNetwork                   *)
(*   - uwb/trilateration.py           : Trilateration                      *)
(*   - edge/edge_node.py              : EdgeNode, its two loops and        *)
(*                                      get_status on latest_positions     *)
(*   - server/central_server.py       : CentralServer position messages    *)
(*   - simulation/virtual_pallet.py   : VirtualPallet                      *)
(*                                                                         *)
(* Numbers.  Python floats are modelled by exact integers and rationals:   *)
(*   - time is counted in ticks of 1/TicksPerSecond seconds, so the rate   *)
(*     gate  current_time - last < 1.0/update_rate  is the integer test    *)
(*     (current_time - last) * update_rate < TicksPerSecond;               *)
(*   - probabilities and the uniform draw are multiples of 1/DrawScale:    *)
(*     the draw u stands for u/DrawScale in [0, 1);                        *)
(*   - positions are lattice points and the targets are chosen so that     *)
(*     every Euclidean distance used is an integer (sqrt is exact);        *)
(*   - the least-squares solution is an exact rational (num / den).        *)
(* An optional value (Python's None or a value) is a sequence of length    *)
(* 0 or 1; an entry of a list of distances is such a value.                *)
(***************************************************************************)
EXTENDS Integers, Sequences, FiniteSets

VARIABLES
    sensor,      \* the UWBSensor object: its configuration and last_measurement_time
    call,        \* the last measure_distance call: its inputs, what it consumed, its return
    emitted,     \* history: current_time of every call that returned a measurement, in call order
    retry_seen,  \* history: a call at least one period after the last measurement has been made
    gated_since, \* history: a call since the last measurement was rejected by the rate gate
    attempted,   \* history: current_time of every call that passed the rate gate, in call order
    tri,         \* the Trilateration object (None until the constructor succeeds)
    ctor,        \* the last constructor call: its argument and whether it raised
    est,         \* the last estimate_position call: inputs, return value, calls made, log
    minimize_seen, \* history: what minimize did on each (distances, seed) it was called with
    earlier,     \* history: one earlier estimate_position call, and whether others followed it
    err,         \* the last calculate_position_error call: its arguments and its return
    network,     \* UWBSensorNetwork.sensors: the (sensor_id, sensor) entries in insertion order
    net_call,    \* the last measure_distances call: inputs, the polls it made, its return
    network_changed, \* history: a sensor was added or removed since the last measure_distances
    threads,     \* two threads inside measure_distance of the one sensor: where each is, its arguments
    edge_node,   \* the EdgeNode object: running, mqtt_client (connected or None), set up or not
    latest_positions, \* EdgeNode.latest_positions: tag id -> entry
    data_lock,   \* EdgeNode.data_lock: the thread that holds it, or None
    uwb,         \* the thread of _uwb_processing_loop: where it is and its local variables
    rfid,        \* the thread of _rfid_processing_loop: where it is and its local variables
    status,      \* the main thread in get_status: where it is and the last status returned
    server,      \* the CentralServer object (None until constructed): its config and latest_positions
    received,    \* history: per tag, the position records of the messages processed, in arrival order
    pallet,      \* the VirtualPallet object (None until constructed)
    pallet_call, \* the last call on the pallet: its arguments, tag_ids before it, its return
    history_trimmed \* history: some move_to has cut position_history

sensorVars == <<sensor, call, emitted, retry_seen, gated_since, attempted>>
triVars == <<tri, ctor, est, minimize_seen, earlier, err>>
networkVars == <<network, net_call, network_changed>>
raceVars == <<threads>>
edgeVars == <<edge_node, latest_positions, data_lock, uwb, rfid, status>>
serverVars == <<server, received>>
palletVars == <<pallet, pallet_call, history_trimmed>>
componentVars == <<raceVars, edgeVars, serverVars, palletVars>>
vars == <<sensor, call, emitted, retry_seen, gated_since, attempted,
          tri, ctor, est, minimize_seen, earlier, err, network, net_call, network_changed,
          threads, edge_node, latest_positions, data_lock, uwb, rfid, status,
          server, received, pallet, pallet_call, history_trimmed>>

---------------------------------------------------------------------------
(* Bounds of the model *)

TicksPerSecond == 2     \* time resolution: ticks per second
MaxTime == 5            \* current_time ranges over 0..MaxTime ticks
DrawScale == 2          \* resolution of probabilities and of the uniform draw
MaxNoise == 2           \* a noise sample ranges over -MaxNoise..MaxNoise
GridMax == 4            \* target points of the estimator range over (0..GridMax)^3

---------------------------------------------------------------------------
(* Optional values *)

None == << >>
Some(x) == <<x>>
IsNone(o) == o = << >>
Val(o) == o[1]

---------------------------------------------------------------------------
(* UWBSensor *)

\* Integer square root; exact on the perfect squares the model feeds it.
Sqrt(n) == CHOOSE r \in 0..n : r * r <= n /\ n < (r + 1) * (r + 1)

SensorPositions == { <<0, 0, 0>> }
SensorTargets == { <<0, 0, 0>>, <<2, 0, 0>>, <<0, 3, 4>> }
UpdateRates == {1, 2}
MaxRanges == {2, 3}
NoiseStds == {0, 1}

\* np.random.random(): a uniform draw in [0, 1), in units of 1/DrawScale.
UniformDraws == 0..(DrawScale - 1)

\* np.random.normal(0, std): 0 when std = 0, otherwise any sample.
NormalDraws(std) == IF std = 0 THEN {0} ELSE (0 - MaxNoise)..MaxNoise

\* Mutant: a new sensor counts as never measured: its last_measurement_time lies
\* more than any period in the past.
UWBSensor_init_NeverMeasured(position, range_noise_std, max_range, detection_probability, update_rate) ==
    [ position |-> position,
      range_noise_std |-> range_noise_std,
      max_range |-> max_range,
      detection_probability |-> detection_probability,
      update_rate |-> update_rate,
      last_measurement_time |-> 0 - TicksPerSecond ]

\* UWBSensor.__init__: the configuration, and last_measurement_time = 0.0.
UWBSensor_init(position, range_noise_std, max_range, detection_probability, update_rate) ==
    [ position |-> position,
      range_noise_std |-> range_noise_std,
      max_range |-> max_range,
      detection_probability |-> detection_probability,
      update_rate |-> update_rate,
      last_measurement_time |-> 0 ]

\* true_distance = math.sqrt(dx**2 + dy**2 + dz**2)
true_distance(position, target_position) ==
    LET dx == target_position[1] - position[1]
        dy == target_position[2] - position[2]
        dz == target_position[3] - position[3]
    IN  Sqrt(dx * dx + dy * dy + dz * dz)

\* Mutant: the period computed by an integer division, 1 // update_rate.
RateGated_IntegerDivision(self, current_time) ==
    current_time - self.last_measurement_time < TicksPerSecond * (1 \div self.update_rate)

\* Mutant: <= in place of <.
RateGated_Inclusive(self, current_time) ==
    (current_time - self.last_measurement_time) * self.update_rate <= TicksPerSecond

\* Mutant: only a call at or after the last measurement can be too early.
RateGated_ForwardOnly(self, current_time) ==
    /\ current_time >= self.last_measurement_time
    /\ (current_time - self.last_measurement_time) * self.update_rate < TicksPerSecond

\* if current_time - self.last_measurement_time < 1.0 / self.update_rate: return None
RateGated(self, current_time) ==
    (current_time - self.last_measurement_time) * self.update_rate < TicksPerSecond

\* if true_distance > self.max_range: return None
OutOfRange(self, d) == d > self.max_range

\* Mutant: the comparison inverted.
MissedDetection_Inverted(self, u) == u < self.detection_probability

\* if np.random.random() > self.detection_probability: return None
MissedDetection(self, u) == u > self.detection_probability

\* Mutant: the clamp left out.
ClampDistance_Missing(measured_distance) == measured_distance

\* return max(0.0, measured_distance)
ClampDistance(measured_distance) ==
    IF measured_distance > 0 THEN measured_distance ELSE 0

\* Mutant: last_measurement_time is set only when a distance is returned.
measure_distance_result_StampOnReturn(self, target_position, current_time, u, noise) ==
    IF RateGated(self, current_time)
    THEN [ ret |-> None, last |-> self.last_measurement_time, gate |-> "rate",
           dist |-> None, draw |-> None, noise |-> None ]
    ELSE LET d == true_distance(self.position, target_position) IN
         IF OutOfRange(self, d)
         THEN [ ret |-> None, last |-> self.last_measurement_time, gate |-> "range",
                dist |-> Some(d), draw |-> None, noise |-> None ]
         ELSE IF MissedDetection(self, u)
         THEN [ ret |-> None, last |-> self.last_measurement_time, gate |-> "detection",
                dist |-> Some(d), draw |-> Some(u), noise |-> None ]
         ELSE [ ret |-> Some(ClampDistance(d + noise)), last |-> current_time,
                gate |-> "passed",
                dist |-> Some(d), draw |-> Some(u), noise |-> Some(noise) ]

\* Mutant: last_measurement_time is never set.
measure_distance_result_NoStamp(self, target_position, current_time, u, noise) ==
    IF RateGated(self, current_time)
    THEN [ ret |-> None, last |-> self.last_measurement_time, gate |-> "rate",
           dist |-> None, draw |-> None, noise |-> None ]
    ELSE LET d == true_distance(self.position, target_position) IN
         IF OutOfRange(self, d)
         THEN [ ret |-> None, last |-> self.last_measurement_time, gate |-> "range",
                dist |-> Some(d), draw |-> None, noise |-> None ]
         ELSE IF MissedDetection(self, u)
         THEN [ ret |-> None, last |-> self.last_measurement_time, gate |-> "detection",
                dist |-> Some(d), draw |-> Some(u), noise |-> None ]
         ELSE [ ret |-> Some(ClampDistance(d + noise)), last |-> self.last_measurement_time,
                gate |-> "passed",
                dist |-> Some(d), draw |-> Some(u), noise |-> Some(noise) ]

\* Mutant: the detection trial is made before the range cutoff.
measure_distance_result_DrawFirst(self, target_position, current_time, u, noise) ==
    IF RateGated(self, current_time)
    THEN [ ret |-> None, last |-> self.last_measurement_time, gate |-> "rate",
           dist |-> None, draw |-> None, noise |-> None ]
    ELSE LET d == true_distance(self.position, target_position) IN
         IF MissedDetection(self, u)
         THEN [ ret |-> None, last |-> current_time, gate |-> "detection",
                dist |-> Some(d), draw |-> Some(u), noise |-> None ]
         ELSE IF OutOfRange(self, d)
         THEN [ ret |-> None, last |-> current_time, gate |-> "range",
                dist |-> Some(d), draw |-> Some(u), noise |-> None ]
         ELSE [ ret |-> Some(ClampDistance(d + noise)), last |-> current_time,
                gate |-> "passed",
                dist |-> Some(d), draw |-> Some(u), noise |-> Some(noise) ]

\* measure_distance as a function of the object and of its inputs (the target, the
\* time, and the values the two random draws would give): the value returned, the
\* new last_measurement_time and the random draws consumed.
measure_distance_result(self, target_position, current_time, u, noise) ==
    IF RateGated(self, current_time)
    THEN [ ret |-> None, last |-> self.last_measurement_time, gate |-> "rate",
           dist |-> None, draw |-> None, noise |-> None ]
    ELSE LET d == true_distance(self.position, target_position) IN
         IF OutOfRange(self, d)
         THEN [ ret |-> None, last |-> current_time, gate |-> "range",
                dist |-> Some(d), draw |-> None, noise |-> None ]
         ELSE IF MissedDetection(self, u)
         THEN [ ret |-> None, last |-> current_time, gate |-> "detection",
                dist |-> Some(d), draw |-> Some(u), noise |-> None ]
         ELSE [ ret |-> Some(ClampDistance(d + noise)), last |-> current_time,
                gate |-> "passed",
                dist |-> Some(d), draw |-> Some(u), noise |-> Some(noise) ]

\* Whether current_time is at least one sampling period after the last call that
\* returned a measurement (history, for the claims about retries).
PeriodAfterLastEmit(self, current_time) ==
    /\ emitted # << >>
    /\ (current_time - emitted[Len(emitted)]) * self.update_rate >= TicksPerSecond

NoCall ==
    [ made |-> FALSE, target_position |-> <<0, 0, 0>>, current_time |-> 0,
      old_last |-> 0, ret |-> None, gate |-> "rate", dist |-> None,
      draw |-> None, noise |-> None, first_retry |-> FALSE, gated_before |-> FALSE,
      first_call |-> FALSE ]

SensorInit ==
    /\ sensor \in { UWBSensor_init(pos, std, mr, dp, ur) :
                      pos \in SensorPositions, std \in NoiseStds, mr \in MaxRanges,
                      dp \in 0..DrawScale, ur \in UpdateRates }
    /\ call = NoCall
    /\ emitted = << >>
    /\ retry_seen = FALSE
    /\ gated_since = FALSE
    /\ attempted = << >>

\* One call of UWBSensor.measure_distance(target_position, current_time); the two
\* random draws take any value, and only the draws the call reaches are recorded.
measure_distance ==
    \E target_position \in SensorTargets, current_time \in 0..MaxTime :
      \E r \in { measure_distance_result(sensor, target_position, current_time, u, noise) :
                    u \in UniformDraws, noise \in NormalDraws(sensor.range_noise_std) } :
        LET after == PeriodAfterLastEmit(sensor, current_time)
        IN  /\ Len(emitted) <= MaxTime
            /\ Len(attempted) <= MaxTime
            /\ sensor' = [sensor EXCEPT !.last_measurement_time = r.last]
            /\ call' = [ made |-> TRUE, target_position |-> target_position,
                         current_time |-> current_time,
                         old_last |-> sensor.last_measurement_time,
                         ret |-> r.ret, gate |-> r.gate, dist |-> r.dist,
                         draw |-> r.draw, noise |-> r.noise,
                         first_retry |-> after /\ ~retry_seen,
                         gated_before |-> gated_since,
                         first_call |-> ~call.made ]
            /\ emitted' = IF IsNone(r.ret) THEN emitted ELSE Append(emitted, current_time)
            /\ retry_seen' = IF IsNone(r.ret) THEN (retry_seen \/ after) ELSE FALSE
            /\ gated_since' = IF IsNone(r.ret)
                              THEN (gated_since \/ (emitted # << >> /\ r.gate = "rate"))
                              ELSE FALSE
            /\ attempted' = IF r.gate = "rate" THEN attempted
                            ELSE Append(attempted, current_time)
            /\ UNCHANGED <<triVars, networkVars, componentVars>>

---------------------------------------------------------------------------
(* Exact arithmetic for the estimator *)

Abs(x) == IF x < 0 THEN 0 - x ELSE x

RECURSIVE GCD(_, _)
GCD(a, b) == IF b = 0 THEN a ELSE GCD(b, a % b)

\* The sum of f[lo] .. f[hi].
RECURSIVE SumOver(_, _, _)
SumOver(f, lo, hi) == IF lo > hi THEN 0 ELSE f[lo] + SumOver(f, lo + 1, hi)

\* A point with rational coordinates num[c] / den, in lowest terms with den > 0:
\* what a tuple of three floats holds.
Rational3(num, den) ==
    LET g == GCD(GCD(Abs(num[1]), Abs(num[2])), GCD(Abs(num[3]), Abs(den)))
        sg == IF den < 0 THEN 0 - g ELSE g
    IN  [ num |-> << num[1] \div sg, num[2] \div sg, num[3] \div sg >>, den |-> den \div sg ]

\* The point with integer coordinates p.
Point(p) == [ num |-> p, den |-> 1 ]

Det3(m) ==
      m[1][1] * (m[2][2] * m[3][3] - m[2][3] * m[3][2])
    - m[1][2] * (m[2][1] * m[3][3] - m[2][3] * m[3][1])
    + m[1][3] * (m[2][1] * m[3][2] - m[2][2] * m[3][1])

---------------------------------------------------------------------------
(* Trilateration *)

\* The anchor lists a caller constructs an estimator with.
NonCoplanar4 == << <<0, 0, 0>>, <<0, 2, 4>>, <<4, 0, 4>>, <<4, 2, 0>> >>
NonCoplanar5 == << <<0, 0, 0>>, <<0, 2, 4>>, <<4, 0, 4>>, <<4, 2, 0>>, <<2, 1, 2>> >>
Coplanar4 == << <<2, 2, 2>>, <<3, 0, 2>>, <<4, 1, 2>>, <<4, 3, 2>> >>
Collinear4 == << <<0, 0, 0>>, <<4, 0, 0>>, <<5, 0, 0>>, <<6, 0, 0>> >>
TooFew3 == << <<0, 0, 0>>, <<0, 2, 4>>, <<4, 0, 4>> >>
AnchorLists == { NonCoplanar4, NonCoplanar5, Coplanar4, Collinear4, TooFew3, << >> }

\* Mutant: the bound off by one.
TooFewAnchors_OffByOne(anchor_positions) == Len(anchor_positions) < 3

\* The check of __init__: if len(anchor_positions) < 4: raise ValueError(...)
TooFewAnchors(anchor_positions) == Len(anchor_positions) < 4

\* The object __init__ builds: anchor_positions and num_anchors.
Trilateration_object(anchor_positions) ==
    [ anchor_positions |-> anchor_positions, num_anchors |-> Len(anchor_positions) ]

Sq(x) == x * x

\* Matrix A of linear_least_squares: row k is built from anchor k+1 and the
\* reference anchor (the first one); Python's A[i-1, :] for i = k.
MatrixA(self) ==
    LET a == self.anchor_positions
    IN  [ k \in 1..(self.num_anchors - 1) |->
            << 2 * (a[k + 1][1] - a[1][1]),
               2 * (a[k + 1][2] - a[1][2]),
               2 * (a[k + 1][3] - a[1][3]) >> ]

\* Vector b of linear_least_squares:
\* b[i-1] = (ri**2 - r0**2) - (xi**2 - x0**2) - (yi**2 - y0**2) - (zi**2 - z0**2)
VectorB(self, distances) ==
    LET a == self.anchor_positions
        r0 == Val(distances[1])
    IN  [ k \in 1..(self.num_anchors - 1) |->
            (Sq(Val(distances[k + 1])) - Sq(r0))
              - (Sq(a[k + 1][1]) - Sq(a[1][1]))
              - (Sq(a[k + 1][2]) - Sq(a[1][2]))
              - (Sq(a[k + 1][3]) - Sq(a[1][3])) ]

\* np.linalg.lstsq(A, b, rcond=None)[0]: the least-squares solution of A x = b of
\* minimum norm.  With N = A^T A and v = A^T b it solves N x = v; a coordinate whose
\* column of A is zero (all anchors agree in it) is 0 in the minimum-norm solution.
\* The anchor lists of the model are of full rank in their other coordinates.
LstSq(A, b) ==
    LET m == Len(A)
        zero(c) == \A k \in 1..m : A[k][c] = 0
        n(i, j) == IF zero(i) /\ i = j THEN 1
                   ELSE SumOver([ k \in 1..m |-> A[k][i] * A[k][j] ], 1, m)
        N == << << n(1, 1), n(1, 2), n(1, 3) >>,
                << n(2, 1), n(2, 2), n(2, 3) >>,
                << n(3, 1), n(3, 2), n(3, 3) >> >>
        w(i) == SumOver([ k \in 1..m |-> A[k][i] * b[k] ], 1, m)
        v == << w(1), w(2), w(3) >>
        row(i, c) == << IF c = 1 THEN v[i] ELSE N[i][1],
                        IF c = 2 THEN v[i] ELSE N[i][2],
                        IF c = 3 THEN v[i] ELSE N[i][3] >>
        Nc(c) == << row(1, c), row(2, c), row(3, c) >>
    IN  Rational3(<< Det3(Nc(1)), Det3(Nc(2)), Det3(Nc(3)) >>, Det3(N))

\* The messages the estimator logs at warning level or above.
MsgExpected == "Expected n distances, got m"
MsgLlsRaised == "Linear least squares trilateration failed"
MsgOptFailed == "Optimization failed"
MsgOptRaised == "Nonlinear optimization trilateration failed"
MsgUnknownMethod == "Unknown trilateration method"

\* Whether one of the entries the stages read is None: arithmetic on it raises
\* TypeError.
HasMissing(self, distances) ==
    \E i \in 1..self.num_anchors : IsNone(distances[i])

\* What a stage reports when it ends without a position and without having called
\* a solver: the message it logged, and whether an exception left it.
Failed(log, raised) ==
    [ ret |-> None, lstsq_calls |-> 0, minimize_calls |-> << >>, log |-> log, raised |-> raised ]

\* Mutant: the length check rejects only a list that is too short, so a longer list
\* is solved over its first num_anchors entries.
linear_least_squares_PrefixSolve(self, distances) ==
    IF Len(distances) < self.num_anchors THEN Failed(<< MsgExpected >>, FALSE)
    ELSE IF HasMissing(self, distances) THEN Failed(<< MsgLlsRaised >>, FALSE)
    ELSE [ ret |-> Some(LstSq(MatrixA(self), VectorB(self, distances))),
           lstsq_calls |-> 1, minimize_calls |-> << >>, log |-> << >>, raised |-> FALSE ]

\* Mutant: the body is not wrapped in try/except, so the TypeError of a None entry
\* leaves the method.
linear_least_squares_NoTry(self, distances) ==
    IF Len(distances) # self.num_anchors THEN Failed(<< MsgExpected >>, FALSE)
    ELSE IF HasMissing(self, distances) THEN Failed(<< >>, TRUE)
    ELSE [ ret |-> Some(LstSq(MatrixA(self), VectorB(self, distances))),
           lstsq_calls |-> 1, minimize_calls |-> << >>, log |-> << >>, raised |-> FALSE ]

\* Trilateration.linear_least_squares: the value returned, the number of calls of
\* np.linalg.lstsq, the calls of scipy's minimize, the log, and whether an
\* exception left the method.  A None entry raises while b is built, before lstsq
\* is called, and the except clause turns it into None.
linear_least_squares(self, distances) ==
    IF Len(distances) # self.num_anchors THEN Failed(<< MsgExpected >>, FALSE)
    ELSE IF HasMissing(self, distances) THEN Failed(<< MsgLlsRaised >>, FALSE)
    ELSE [ ret |-> Some(LstSq(MatrixA(self), VectorB(self, distances))),
           lstsq_calls |-> 1, minimize_calls |-> << >>, log |-> << >>, raised |-> FALSE ]

\* tuple(np.mean(self.anchor_positions, axis=0))
Centroid(self) ==
    LET a == self.anchor_positions
        n == self.num_anchors
    IN  Rational3(<< SumOver([ k \in 1..n |-> a[k][1] ], 1, n),
                     SumOver([ k \in 1..n |-> a[k][2] ], 1, n),
                     SumOver([ k \in 1..n |-> a[k][3] ], 1, n) >>, n)

\* What a call of scipy.optimize.minimize can do: end with result.success and a
\* point result.x, end without success at its last iterate result.x, or raise.
OptPoints == { Point(<<2, 1, 2>>), Point(<<0, 0, 4>>) }
OptOutcomes ==
    { [ kind |-> k, x |-> x ] : k \in { "success", "no_success" }, x \in OptPoints }
      \cup { [ kind |-> "raise", x |-> Point(<<0, 0, 0>>) ] }

\* One call of minimize as the estimator's record of it: the seed, whether the seed
\* was passed in as initial_guess (otherwise it is the centroid), how the call ended,
\* and result.x if it returned.
MinimizeCall(seed, given, outcome) ==
    [ seed |-> seed, given |-> given, kind |-> outcome.kind,
      x |-> IF outcome.kind = "raise" THEN None ELSE Some(outcome.x) ]

\* What minimize does on these distances: the objective raises TypeError on a None
\* entry, and minimize lets it through.
Minimize(self, distances, outcome) ==
    IF HasMissing(self, distances) THEN [ kind |-> "raise", x |-> Point(<<0, 0, 0>>) ]
    ELSE outcome

\* Mutant: the last iterate is returned whether or not result.success holds.
nonlinear_optimization_BestIterate(self, distances, initial_guess, outcome) ==
    IF Len(distances) # self.num_anchors THEN Failed(<< MsgExpected >>, FALSE)
    ELSE LET seed == IF IsNone(initial_guess) THEN Centroid(self) ELSE Val(initial_guess)
             result == Minimize(self, distances, outcome)
             called == << MinimizeCall(seed, ~IsNone(initial_guess), result) >>
         IN  IF result.kind \in { "success", "no_success" }
             THEN [ ret |-> Some(result.x), lstsq_calls |-> 0, minimize_calls |-> called,
                    log |-> << >>, raised |-> FALSE ]
             ELSE [ ret |-> None, lstsq_calls |-> 0, minimize_calls |-> called,
                    log |-> << MsgOptRaised >>, raised |-> FALSE ]

\* Mutant: a successful result is returned as a record that also names the seed
\* used.
nonlinear_optimization_Tagged(self, distances, initial_guess, outcome) ==
    IF Len(distances) # self.num_anchors THEN Failed(<< MsgExpected >>, FALSE)
    ELSE LET seed == IF IsNone(initial_guess) THEN Centroid(self) ELSE Val(initial_guess)
             result == Minimize(self, distances, outcome)
             called == << MinimizeCall(seed, ~IsNone(initial_guess), result) >>
         IN  CASE result.kind = "success" ->
                    [ ret |-> Some([ num |-> result.x.num, den |-> result.x.den,
                                     method |-> IF IsNone(initial_guess)
                                                THEN "NonlinearFromCentroid"
                                                ELSE "NonlinearRefined" ]),
                      lstsq_calls |-> 0, minimize_calls |-> called,
                      log |-> << >>, raised |-> FALSE ]
               [] result.kind = "no_success" ->
                    [ ret |-> None, lstsq_calls |-> 0, minimize_calls |-> called,
                      log |-> << MsgOptFailed >>, raised |-> FALSE ]
               [] OTHER ->
                    [ ret |-> None, lstsq_calls |-> 0, minimize_calls |-> called,
                      log |-> << MsgOptRaised >>, raised |-> FALSE ]

\* Mutant: the estimator keeps its last position and starts from it when no
\* initial guess is given.
nonlinear_optimization_WarmStart(self, distances, initial_guess, outcome) ==
    IF Len(distances) # self.num_anchors THEN Failed(<< MsgExpected >>, FALSE)
    ELSE LET seed == IF ~IsNone(initial_guess) THEN Val(initial_guess)
                     ELSE IF ~IsNone(est) /\ ~IsNone(Val(est).ret) THEN Val(Val(est).ret)
                     ELSE Centroid(self)
             result == Minimize(self, distances, outcome)
             called == << MinimizeCall(seed, ~IsNone(initial_guess), result) >>
         IN  CASE result.kind = "success" ->
                    [ ret |-> Some(result.x), lstsq_calls |-> 0, minimize_calls |-> called,
                      log |-> << >>, raised |-> FALSE ]
               [] result.kind = "no_success" ->
                    [ ret |-> None, lstsq_calls |-> 0, minimize_calls |-> called,
                      log |-> << MsgOptFailed >>, raised |-> FALSE ]
               [] OTHER ->
                    [ ret |-> None, lstsq_calls |-> 0, minimize_calls |-> called,
                      log |-> << MsgOptRaised >>, raised |-> FALSE ]

\* Trilateration.nonlinear_optimization; outcome is what minimize does if it is
\* called.  Only a result with result.success is returned; a result without it is
\* dropped with a warning, an exception is caught and logged.
nonlinear_optimization(self, distances, initial_guess, outcome) ==
    IF Len(distances) # self.num_anchors THEN Failed(<< MsgExpected >>, FALSE)
    ELSE LET seed == IF IsNone(initial_guess) THEN Centroid(self) ELSE Val(initial_guess)
             result == Minimize(self, distances, outcome)
             called == << MinimizeCall(seed, ~IsNone(initial_guess), result) >>
         IN  CASE result.kind = "success" ->
                    [ ret |-> Some(result.x), lstsq_calls |-> 0, minimize_calls |-> called,
                      log |-> << >>, raised |-> FALSE ]
               [] result.kind = "no_success" ->
                    [ ret |-> None, lstsq_calls |-> 0, minimize_calls |-> called,
                      log |-> << MsgOptFailed >>, raised |-> FALSE ]
               [] OTHER ->
                    [ ret |-> None, lstsq_calls |-> 0, minimize_calls |-> called,
                      log |-> << MsgOptRaised >>, raised |-> FALSE ]

\* Two steps of one call in sequence: the second step's return value, and the
\* calls and log of both; an exception that left the first step ends the call.
Then(first, second) ==
    IF first.raised THEN first
    ELSE [ ret |-> second.ret, lstsq_calls |-> first.lstsq_calls + second.lstsq_calls,
           minimize_calls |-> first.minimize_calls \o second.minimize_calls,
           log |-> first.log \o second.log, raised |-> second.raised ]

\* Mutant: the optimizer is always run from both seeds, and the centroid-seeded
\* result is preferred.
multilateral_algorithm_BothSeeds(self, distances, o1, o2) ==
    LET lls_result == linear_least_squares(self, distances)
    IN  IF ~IsNone(lls_result.ret)
        THEN LET opt_result == nonlinear_optimization(self, distances, lls_result.ret, o1)
                 both == Then(Then(lls_result, opt_result),
                              nonlinear_optimization(self, distances, None, o2))
             IN  IF ~IsNone(both.ret) THEN both ELSE [ both EXCEPT !.ret = opt_result.ret ]
        ELSE Then(lls_result, nonlinear_optimization(self, distances, None, o1))

\* Mutant: no fallback when the linear stage returned nothing.
multilateral_algorithm_NoFallback(self, distances, o1, o2) ==
    LET lls_result == linear_least_squares(self, distances)
    IN  IF ~IsNone(lls_result.ret)
        THEN LET opt_result == nonlinear_optimization(self, distances, lls_result.ret, o1)
             IN  IF ~IsNone(opt_result.ret)
                 THEN Then(lls_result, opt_result)
                 ELSE Then(Then(lls_result, opt_result),
                           nonlinear_optimization(self, distances, None, o2))
        ELSE lls_result

\* Trilateration.multilateral_algorithm; o1 and o2 are what the first and the second
\* call of minimize do.
multilateral_algorithm(self, distances, o1, o2) ==
    LET lls_result == linear_least_squares(self, distances)
    IN  IF ~IsNone(lls_result.ret)
        THEN LET opt_result == nonlinear_optimization(self, distances, lls_result.ret, o1)
             IN  IF ~IsNone(opt_result.ret)
                 THEN Then(lls_result, opt_result)
                 ELSE Then(Then(lls_result, opt_result),
                           nonlinear_optimization(self, distances, None, o2))
        ELSE Then(lls_result, nonlinear_optimization(self, distances, None, o1))

KnownMethods == { "lls", "nonlinear", "multi" }
Methods == KnownMethods \cup { "kalman" }

\* Mutant: an unknown method falls back to the default, 'multi'.
estimate_position_result_DefaultMulti(self, distances, method, o1, o2) ==
    CASE method = "lls" -> linear_least_squares(self, distances)
      [] method = "nonlinear" -> nonlinear_optimization(self, distances, None, o1)
      [] OTHER -> multilateral_algorithm(self, distances, o1, o2)

\* Mutant: 'nonlinear' is served by the combined policy.
estimate_position_result_NonlinearViaMulti(self, distances, method, o1, o2) ==
    CASE method = "lls" -> linear_least_squares(self, distances)
      [] method = "nonlinear" -> multilateral_algorithm(self, distances, o1, o2)
      [] method = "multi" -> multilateral_algorithm(self, distances, o1, o2)
      [] OTHER -> Failed(<< MsgUnknownMethod >>, FALSE)

\* Trilateration.estimate_position
estimate_position_result(self, distances, method, o1, o2) ==
    CASE method = "lls" -> linear_least_squares(self, distances)
      [] method = "nonlinear" -> nonlinear_optimization(self, distances, None, o1)
      [] method = "multi" -> multilateral_algorithm(self, distances, o1, o2)
      [] OTHER -> Failed(<< MsgUnknownMethod >>, FALSE)

\* The squared Euclidean distance of two lattice points.
SqDist(p, q) == Sq(p[1] - q[1]) + Sq(p[2] - q[2]) + Sq(p[3] - q[3])

Grid == { <<x, y, z>> : x \in 0..GridMax, y \in 0..GridMax, z \in 0..GridMax }

\* The distance lists a caller passes; an entry is a number or None.  The lists
\* are the distances of a target at an integer distance from every anchor, exact
\* or with an error on the first one, the same lists one entry shorter or one
\* entry longer, and the exact lists with None as last entry.
IsSquare(n) == Sq(Sqrt(n)) = n
ExactDistances(self, p) ==
    [ i \in 1..self.num_anchors |-> Some(Sqrt(SqDist(self.anchor_positions[i], p))) ]
DistanceLists(self) ==
    LET targets == { p \in Grid : \A i \in 1..self.num_anchors :
                                    IsSquare(SqDist(self.anchor_positions[i], p)) }
        full == { ExactDistances(self, p) : p \in targets }
                  \cup { [ ExactDistances(self, p) EXCEPT ![1] = Some(Val(@) + 1) ] : p \in targets }
    IN  full \cup { SubSeq(d, 1, Len(d) - 1) : d \in full }
             \cup { Append(d, d[1]) : d \in full }
             \cup { [ ExactDistances(self, p) EXCEPT ![self.num_anchors] = None ] : p \in targets }

TriInit ==
    /\ tri = None
    /\ ctor = None
    /\ est = None
    /\ minimize_seen = {}
    /\ earlier = None
    /\ err = None

\* Trilateration(anchor_positions): raises ValueError, and builds no object, for
\* fewer than 4 anchors.
Trilateration_init ==
    /\ IsNone(tri)
    /\ \E anchor_positions \in AnchorLists :
         IF TooFewAnchors(anchor_positions)
         THEN /\ ctor' = Some([ anchor_positions |-> anchor_positions, raised |-> TRUE ])
              /\ UNCHANGED tri
         ELSE /\ ctor' = Some([ anchor_positions |-> anchor_positions, raised |-> FALSE ])
              /\ tri' = Some(Trilateration_object(anchor_positions))
    /\ UNCHANGED <<est, minimize_seen, earlier, err, sensorVars, networkVars, componentVars>>

\* The outcomes of minimize that a call with this method can meet: 'lls' and an
\* unknown method never call it, 'nonlinear' calls it once, 'multi' up to twice.
NoOutcome == { [ kind |-> "raise", x |-> Point(<<0, 0, 0>>) ] }
FirstOutcomes(method) ==
    IF method \in { "nonlinear", "multi" } THEN OptOutcomes ELSE NoOutcome
SecondOutcomes(method) ==
    IF method = "multi" THEN OptOutcomes ELSE NoOutcome

\* scipy's L-BFGS-B draws no random numbers: on one estimator, what minimize does
\* is a function of the distances (which fix the objective) and of the seed.  The
\* runs of a call agree with that function as far as minimize_seen knows it.
AsSeenBefore(distances, runs) ==
    /\ \A i \in 1..Len(runs) : \A s \in minimize_seen :
         (s.distances = distances /\ s.seed = runs[i].seed)
            => (s.kind = runs[i].kind /\ s.x = runs[i].x)
    /\ \A i, j \in 1..Len(runs) :
         runs[i].seed = runs[j].seed => (runs[i].kind = runs[j].kind /\ runs[i].x = runs[j].x)

\* The runs of a call, as minimize_seen keeps them.
SeenIn(distances, runs) ==
    { [ distances |-> distances, seed |-> runs[i].seed, kind |-> runs[i].kind, x |-> runs[i].x ] :
        i \in 1..Len(runs) }

\* One call of estimate_position(distances, method) on the constructed estimator,
\* with distances taken from lists.  With repeatable = FALSE minimize may do
\* anything on each run; with repeatable = TRUE it is held to what it did before on
\* the same distances and seed, and one earlier call is remembered.
EstimateCall(lists, repeatable) ==
    /\ ~IsNone(tri)
    /\ \E distances \in lists, method \in Methods :
         \E r \in { estimate_position_result(Val(tri), distances, method, o1, o2) :
                      o1 \in FirstOutcomes(method), o2 \in SecondOutcomes(method) } :
            /\ repeatable => AsSeenBefore(distances, r.minimize_calls)
            /\ est' = Some([ distances |-> distances, method |-> method, ret |-> r.ret,
                             lstsq_calls |-> r.lstsq_calls, minimize_calls |-> r.minimize_calls,
                             log |-> r.log, raised |-> r.raised ])
            /\ minimize_seen' = IF repeatable
                                THEN minimize_seen \cup SeenIn(distances, r.minimize_calls)
                                ELSE minimize_seen
            /\ earlier' \in
                 IF ~repeatable THEN { earlier }
                 ELSE { Some([ distances |-> distances, method |-> method, ret |-> r.ret,
                               between |-> FALSE ]) }
                        \cup IF IsNone(earlier) THEN { }
                             ELSE { Some([ Val(earlier) EXCEPT !.between =
                                             @ \/ distances # Val(earlier).distances
                                               \/ method # Val(earlier).method ]) }
    /\ UNCHANGED <<tri, ctor, err, sensorVars, networkVars, componentVars>>

\* estimate_position on any list a caller passes.
estimate_position == EstimateCall(DistanceLists(Val(tri)), FALSE)

\* The lists of the calls that are repeated: the exact distances of one target,
\* and the same list one entry shorter.
RepeatLists(self) ==
    LET p == CHOOSE q \in Grid : \A i \in 1..self.num_anchors :
                                   IsSquare(SqDist(self.anchor_positions[i], q))
        d == ExactDistances(self, p)
    IN  { d, SubSeq(d, 1, Len(d) - 1) }

\* estimate_position called again and again on a few lists.
estimate_position_repeated == EstimateCall(RepeatLists(Val(tri)), TRUE)

\* Mutant: the sum of the absolute coordinate differences.
calculate_position_error_result_Manhattan(true_position, estimated_position) ==
    Abs(true_position[1] - estimated_position[1])
      + Abs(true_position[2] - estimated_position[2])
      + Abs(true_position[3] - estimated_position[3])

\* Trilateration.calculate_position_error: np.linalg.norm(true_pos - est_pos), the
\* square root of the sum of the squared coordinate differences.
calculate_position_error_result(true_position, estimated_position) ==
    LET diff == << true_position[1] - estimated_position[1],
                   true_position[2] - estimated_position[2],
                   true_position[3] - estimated_position[3] >>
    IN  Sqrt(Sq(diff[1]) + Sq(diff[2]) + Sq(diff[3]))

\* The pairs of points the error is asked for: lattice points at an integer
\* distance from each other.
ErrorPoints == { p \in Grid : p[1] = 0 /\ p[2] \in {0, 3} }
ErrorPairs == { pq \in ErrorPoints \X ErrorPoints : IsSquare(SqDist(pq[1], pq[2])) }

\* One call of calculate_position_error(true_position, estimated_position) on the
\* constructed estimator.
calculate_position_error ==
    /\ ~IsNone(tri)
    /\ \E pq \in ErrorPairs :
         err' = Some([ true_position |-> pq[1], estimated_position |-> pq[2],
                       ret |-> calculate_position_error_result(pq[1], pq[2]) ])
    /\ UNCHANGED <<tri, ctor, est, minimize_seen, earlier, sensorVars, networkVars, componentVars>>

---------------------------------------------------------------------------
(* UWBSensorNetwork *)

\* The sensors a network is built from, each with its sensor_id.
NetworkSensors ==
    { [ sensor_id |-> "a1", sensor |-> UWBSensor_init(<<0, 0, 0>>, 0, 2, DrawScale, 1) ],
      [ sensor_id |-> "a2", sensor |-> UWBSensor_init(<<0, 0, 3>>, 1, 3, DrawScale - 2, 2) ] }
NetworkTargets == { <<0, 0, 0>>, <<0, 0, 4>> }

\* The keys of self.sensors, in insertion order.
SensorIds(sensors) == [ i \in 1..Len(sensors) |-> sensors[i].sensor_id ]

NoNetCall ==
    [ made |-> FALSE, tag_position |-> <<0, 0, 0>>, current_time |-> 0,
      sensor_ids |-> << >>, polls |-> << >>, measurements |-> << >>,
      repeat |-> FALSE, previous_measured |-> 0 ]

\* UWBSensorNetwork.__init__: no sensors.
NetworkInit ==
    /\ network = << >>
    /\ net_call = NoNetCall
    /\ network_changed = FALSE

\* add_sensor(sensor): self.sensors[sensor.sensor_id] = sensor; a key that is
\* already there keeps its place.
add_sensor ==
    /\ \E s \in NetworkSensors :
         network' = IF \E i \in 1..Len(network) : network[i].sensor_id = s.sensor_id
                    THEN [ i \in 1..Len(network) |->
                             IF network[i].sensor_id = s.sensor_id THEN s ELSE network[i] ]
                    ELSE Append(network, s)
    /\ network_changed' = TRUE
    /\ UNCHANGED <<net_call, sensorVars, triVars, componentVars>>

\* remove_sensor(sensor_id): del self.sensors[sensor_id] if it is there.
remove_sensor ==
    /\ \E sensor_id \in { s.sensor_id : s \in NetworkSensors } :
         network' = SelectSeq(network, LAMBDA e : e.sensor_id # sensor_id)
    /\ network_changed' = (network_changed \/ network' # network)
    /\ UNCHANGED <<net_call, sensorVars, triVars, componentVars>>

\* The loop of measure_distances over self.sensors.items(): every way the calls
\* sensor.measure_distance(tag_position, current_time) can go, one call per entry,
\* as the sequence of polls (the sensor polled, the time passed, the result).
RECURSIVE Polls(_, _, _)
Polls(sensors, tag_position, current_time) ==
    IF sensors = << >> THEN { << >> }
    ELSE LET e == Head(sensors)
             results == { measure_distance_result(e.sensor, tag_position, current_time, u, noise) :
                            u \in UniformDraws, noise \in NormalDraws(e.sensor.range_noise_std) }
         IN  { << [ sensor_id |-> e.sensor_id, current_time |-> current_time, result |-> r ] >> \o rest :
                 r \in results, rest \in Polls(Tail(sensors), tag_position, current_time) }

\* Mutant: every polled sensor gets an entry, None for a sensor that returned None.
Measurements_Placeholders(polls) ==
    [ sensor_id \in { polls[i].sensor_id : i \in 1..Len(polls) } |->
        LET i == CHOOSE i \in 1..Len(polls) : polls[i].sensor_id = sensor_id
        IN  polls[i].result.ret ]

\* The dictionary measure_distances builds: measurements[sensor_id] = distance for
\* the polls with distance is not None.
Measurements(polls) ==
    [ sensor_id \in { polls[i].sensor_id :
                        i \in { j \in 1..Len(polls) : ~IsNone(polls[j].result.ret) } } |->
        LET i == CHOOSE i \in 1..Len(polls) : polls[i].sensor_id = sensor_id
        IN  Val(polls[i].result.ret) ]

\* One call of UWBSensorNetwork.measure_distances(tag_position, current_time).
measure_distances ==
    /\ \E tag_position \in NetworkTargets, current_time \in 0..MaxTime :
         \E polls \in Polls(network, tag_position, current_time) :
            /\ network' = [ i \in 1..Len(network) |->
                              [ network[i] EXCEPT !.sensor.last_measurement_time =
                                                     polls[i].result.last ] ]
            /\ net_call' = [ made |-> TRUE, tag_position |-> tag_position,
                             current_time |-> current_time,
                             sensor_ids |-> SensorIds(network),
                             polls |-> [ i \in 1..Len(polls) |->
                                           [ sensor_id |-> polls[i].sensor_id,
                                             current_time |-> polls[i].current_time,
                                             ret |-> polls[i].result.ret,
                                             gate |-> polls[i].result.gate ] ],
                             measurements |-> Measurements(polls),
                             repeat |-> /\ net_call.made
                                        /\ ~network_changed
                                        /\ net_call.current_time = current_time,
                             previous_measured |-> Cardinality(DOMAIN net_call.measurements) ]
    /\ network_changed' = FALSE
    /\ UNCHANGED <<sensorVars, triVars, componentVars>>

---------------------------------------------------------------------------
(* Two threads calling measure_distance on one UWBSensor *)

\* measure_distance takes no lock, so a thread can be preempted between any two
\* of its statements.  A thread is outside the method ("idle"), before the rate
\* check of line 62 ("gate"), before the assignment of line 66 ("stamp"), before
\* the rest of the method ("measure"), or has returned ("done").
Threads == { "A", "B" }
OtherThread(t) == CHOOSE o \in Threads : o # t

IdleThread ==
    [ pc |-> "idle", target_position |-> <<0, 0, 0>>, current_time |-> 0,
      wrote |-> FALSE, saw_write |-> FALSE, ret |-> None ]

RaceInit == threads = [ t \in Threads |-> IdleThread ]

\* A thread calls sensor.measure_distance(target_position, current_time).
thread_call ==
    /\ \E t \in Threads, target_position \in SensorTargets, current_time \in 0..MaxTime :
         /\ threads[t].pc = "idle"
         /\ threads' = [ threads EXCEPT ![t] = [ IdleThread EXCEPT !.pc = "gate",
                                                  !.target_position = target_position,
                                                  !.current_time = current_time ] ]
    /\ UNCHANGED <<sensorVars, triVars, networkVars, edgeVars, serverVars, palletVars>>

\* Line 62: the thread reads last_measurement_time and returns None if the call
\* is too early.  saw_write records whether the other thread had made its
\* assignment of line 66 by then.
thread_rate_gate ==
    /\ \E t \in Threads :
         /\ threads[t].pc = "gate"
         /\ threads' = [ threads EXCEPT
                           ![t].pc = IF RateGated(sensor, threads[t].current_time)
                                     THEN "done" ELSE "stamp",
                           ![t].saw_write = threads[OtherThread(t)].wrote ]
    /\ UNCHANGED <<sensorVars, triVars, networkVars, edgeVars, serverVars, palletVars>>

\* Line 66: self.last_measurement_time = current_time.
thread_stamp ==
    /\ \E t \in Threads :
         /\ threads[t].pc = "stamp"
         /\ sensor' = [ sensor EXCEPT !.last_measurement_time = threads[t].current_time ]
         /\ threads' = [ threads EXCEPT ![t].pc = "measure", ![t].wrote = TRUE ]
    /\ UNCHANGED <<call, emitted, retry_seen, gated_since, attempted, triVars, networkVars,
                   edgeVars, serverVars, palletVars>>

\* Lines 69-87: the distance, the range cutoff, the detection trial, the noise and
\* the return; none of them reads or writes last_measurement_time.
thread_measure ==
    /\ \E t \in Threads, u \in UniformDraws, noise \in NormalDraws(sensor.range_noise_std) :
         /\ threads[t].pc = "measure"
         /\ LET d == true_distance(sensor.position, threads[t].target_position)
            IN  threads' = [ threads EXCEPT
                               ![t].pc = "done",
                               ![t].ret = IF OutOfRange(sensor, d) \/ MissedDetection(sensor, u)
                                          THEN None
                                          ELSE Some(ClampDistance(d + noise)) ]
    /\ UNCHANGED <<sensorVars, triVars, networkVars, edgeVars, serverVars, palletVars>>

---------------------------------------------------------------------------
(* EdgeNode: the UWB loop, the RFID loop and get_status on latest_positions *)

\* Each statement that takes data_lock, and each block run while holding it, is
\* one step of its thread.  The time.time() stamps written into the entries and
\* the payloads are left out: no statement reads them.

\* tag_ids = ['tag_1', 'tag_2', 'tag_3'] when latest_positions is empty
DemoTagIds == << "tag_1", "tag_2", "tag_3" >>

\* The tag database of the RFID reader: tag_1 carries pallet_id and content_type,
\* tag_2 carries neither.
KnownTags ==
    [ tag_1 |-> [ tag_id |-> "tag_1", pallet_id |-> Some("P1"), content_type |-> Some("boxes") ],
      tag_2 |-> [ tag_id |-> "tag_2", pallet_id |-> None, content_type |-> None ] ]

\* What reader.read_tags() can return, merged into all_tags.
TagReads == { << >>, << KnownTags.tag_1 >>, << KnownTags.tag_2 >>,
              << KnownTags.tag_1, KnownTags.tag_2 >> }

\* What trilat.estimate_position returns for a tag: a position or None.
EdgePositions == { None, Some(<<1, 2, 2>>) }

DummyPosition == <<0, 0, 0>>

\* dict.get(key, default)
GetOr(o, default) == IF IsNone(o) THEN default ELSE Val(o)

\* list(self.latest_positions.keys()), in the order of the tag ids
RECURSIVE KeysIn(_, _)
KeysIn(ids, d) ==
    IF ids = << >> THEN << >>
    ELSE (IF Head(ids) \in DOMAIN d THEN << Head(ids) >> ELSE << >>) \o KeysIn(Tail(ids), d)

\* d[key] = value
Put(d, key, value) == [ k \in DOMAIN d \cup { key } |-> IF k = key THEN value ELSE d[k] ]

\* Mutant: leaving the with block does not release the lock.
WithExit_Keep(holder) == Some(holder)

\* Leaving a with self.data_lock block releases the lock.
WithExit(holder) == None

\* self.latest_positions[tag_id] = {'position': position, 'timestamp': time.time()}
uwb_entry(position) ==
    [ position |-> position, pallet_id |-> None, content_type |-> None, last_seen |-> FALSE ]

\* self.latest_positions[tag_id].update({'pallet_id': ..., 'content_type': ..., 'last_seen': ...})
rfid_entry(entry, tag_info) ==
    [ entry EXCEPT !.pallet_id = Some(GetOr(tag_info.pallet_id, "unknown")),
                   !.content_type = Some(GetOr(tag_info.content_type, "unknown")),
                   !.last_seen = TRUE ]

UwbStart == [ pc |-> "uwb_lock_ids", tag_ids |-> << >>, position |-> None, payload |-> None ]
RfidStart == [ pc |-> "rfid_read", all_tags |-> << >> ]
StatusStart == [ pc |-> "status_idle", tags |-> None ]

EdgeInit ==
    /\ edge_node = [ running |-> FALSE, mqtt_client |-> FALSE, is_setup |-> FALSE ]
    /\ latest_positions = << >>
    /\ data_lock = None
    /\ uwb = UwbStart
    /\ rfid = RfidStart
    /\ status = StatusStart

edgeOthers == <<sensorVars, triVars, networkVars, raceVars, serverVars, palletVars>>

\* setup(): the MQTT client is connected, or the connection failed and
\* mqtt_client stays None.
setup ==
    /\ ~edge_node.is_setup
    /\ \E connected \in BOOLEAN :
         edge_node' = [ edge_node EXCEPT !.is_setup = TRUE, !.mqtt_client = connected ]
    /\ UNCHANGED <<latest_positions, data_lock, uwb, rfid, status, edgeOthers>>

\* start(): the two loops are started.
start ==
    /\ edge_node.is_setup
    /\ ~edge_node.running
    /\ edge_node' = [ edge_node EXCEPT !.running = TRUE ]
    /\ UNCHANGED <<latest_positions, data_lock, uwb, rfid, status, edgeOthers>>

\* A thread enters a with self.data_lock block: it waits until the lock is free.
Acquire(thread) ==
    /\ data_lock = None
    /\ data_lock' = Some(thread)

\* Line 235 of _uwb_processing_loop.
uwb_lock_ids ==
    /\ edge_node.running
    /\ uwb.pc = "uwb_lock_ids"
    /\ Acquire("uwb")
    /\ uwb' = [ UwbStart EXCEPT !.pc = "uwb_read_ids" ]
    /\ UNCHANGED <<edge_node, latest_positions, rfid, status, edgeOthers>>

\* Lines 236-240: the tag ids to locate.
uwb_read_ids ==
    /\ uwb.pc = "uwb_read_ids"
    /\ uwb' = [ uwb EXCEPT !.pc = "uwb_estimate",
                           !.tag_ids = IF DOMAIN latest_positions = {}
                                       THEN DemoTagIds
                                       ELSE KeysIn(DemoTagIds, latest_positions) ]
    /\ data_lock' = WithExit("uwb")
    /\ UNCHANGED <<edge_node, latest_positions, rfid, status, edgeOthers>>

\* Lines 243-258: the next tag's distances and position; a tag without a position
\* is skipped, and after the last tag the loop starts over.
uwb_estimate ==
    /\ uwb.pc = "uwb_estimate"
    /\ IF uwb.tag_ids = << >>
       THEN uwb' = UwbStart
       ELSE \E position \in EdgePositions :
              uwb' = IF IsNone(position)
                     THEN [ uwb EXCEPT !.tag_ids = Tail(uwb.tag_ids) ]
                     ELSE [ uwb EXCEPT !.pc = "uwb_lock_store", !.position = position ]
    /\ UNCHANGED <<edge_node, latest_positions, data_lock, rfid, status, edgeOthers>>

\* Line 259.
uwb_lock_store ==
    /\ uwb.pc = "uwb_lock_store"
    /\ Acquire("uwb")
    /\ uwb' = [ uwb EXCEPT !.pc = "uwb_store" ]
    /\ UNCHANGED <<edge_node, latest_positions, rfid, status, edgeOthers>>

\* Lines 261-267: the entry is stored and _publish_position is called, which
\* returns at once without an MQTT client (lines 323-324).
uwb_store ==
    /\ uwb.pc = "uwb_store"
    /\ LET tag_id == Head(uwb.tag_ids)
       IN  latest_positions' =
               Put(latest_positions, tag_id,
                   uwb_entry(Val(uwb.position)))
    /\ data_lock' = WithExit("uwb")
    /\ uwb' = IF edge_node.mqtt_client
              THEN [ uwb EXCEPT !.pc = "publish_lock",
                                !.payload = Some([ tag_id |-> Head(uwb.tag_ids),
                                                   position |-> Val(uwb.position),
                                                   pallet_id |-> None,
                                                   content_type |-> None ]) ]
              ELSE [ uwb EXCEPT !.pc = "uwb_estimate", !.tag_ids = Tail(uwb.tag_ids),
                                !.position = None ]
    /\ UNCHANGED <<edge_node, rfid, status, edgeOthers>>

\* Line 341 of _publish_position.
publish_lock ==
    /\ uwb.pc = "publish_lock"
    /\ Acquire("uwb")
    /\ uwb' = [ uwb EXCEPT !.pc = "publish_read" ]
    /\ UNCHANGED <<edge_node, latest_positions, rfid, status, edgeOthers>>

\* Lines 342-350: the tag information is copied into the payload and the message
\* is published; the loop goes on with the next tag.
publish_read ==
    /\ uwb.pc = "publish_read"
    /\ LET tag_id == Head(uwb.tag_ids)
           payload == Val(uwb.payload)
       IN  uwb' = [ uwb EXCEPT
                      !.pc = "uwb_estimate",
                      !.tag_ids = Tail(uwb.tag_ids),
                      !.position = None,
                      !.payload = IF tag_id \in DOMAIN latest_positions
                                  THEN Some([ payload EXCEPT
                                          !.pallet_id = latest_positions[tag_id].pallet_id,
                                          !.content_type = latest_positions[tag_id].content_type ])
                                  ELSE uwb.payload ]
    /\ data_lock' = WithExit("uwb")
    /\ UNCHANGED <<edge_node, latest_positions, rfid, status, edgeOthers>>

\* Lines 284-296 of _rfid_processing_loop: the tags read from the readers.
rfid_read ==
    /\ edge_node.running
    /\ rfid.pc = "rfid_read"
    /\ \E tags \in TagReads : rfid' = [ pc |-> "rfid_lock", all_tags |-> tags ]
    /\ UNCHANGED <<edge_node, latest_positions, data_lock, uwb, status, edgeOthers>>

\* Line 299.
rfid_lock ==
    /\ rfid.pc = "rfid_lock"
    /\ Acquire("rfid")
    /\ rfid' = [ rfid EXCEPT !.pc = "rfid_create" ]
    /\ UNCHANGED <<edge_node, latest_positions, uwb, status, edgeOthers>>

\* Lines 300-306: a tag without an entry gets one with a dummy position; after
\* the last tag the with block is left.
rfid_create ==
    /\ rfid.pc = "rfid_create"
    /\ IF rfid.all_tags = << >>
       THEN /\ rfid' = RfidStart
            /\ data_lock' = WithExit("rfid")
            /\ UNCHANGED latest_positions
       ELSE /\ rfid' = [ rfid EXCEPT !.pc = "rfid_update" ]
            /\ UNCHANGED data_lock
            /\ LET tag_id == Head(rfid.all_tags).tag_id
               IN  latest_positions' =
                       IF tag_id \in DOMAIN latest_positions
                       THEN latest_positions
                       ELSE Put(latest_positions, tag_id,
                                [ position |-> DummyPosition, pallet_id |-> None,
                                  content_type |-> None, last_seen |-> FALSE ])
    /\ UNCHANGED <<edge_node, uwb, status, edgeOthers>>

\* Lines 309-313: the tag information is added to the entry.
rfid_update ==
    /\ rfid.pc = "rfid_update"
    /\ LET tag_info == Head(rfid.all_tags)
       IN  latest_positions' = Put(latest_positions, tag_info.tag_id,
                                   rfid_entry(latest_positions[tag_info.tag_id], tag_info))
    /\ rfid' = [ rfid EXCEPT !.pc = "rfid_create", !.all_tags = Tail(rfid.all_tags) ]
    /\ UNCHANGED <<edge_node, data_lock, uwb, status, edgeOthers>>

\* Line 400 of get_status.
status_lock ==
    /\ status.pc = "status_idle"
    /\ Acquire("status")
    /\ status' = [ status EXCEPT !.pc = "status_read" ]
    /\ UNCHANGED <<edge_node, latest_positions, uwb, rfid, edgeOthers>>

\* Lines 401-415: the entries are copied into the status, which is returned.
status_read ==
    /\ status.pc = "status_read"
    /\ status' = [ pc |-> "status_idle", tags |-> Some(latest_positions) ]
    /\ data_lock' = WithExit("status")
    /\ UNCHANGED <<edge_node, latest_positions, uwb, rfid, edgeOthers>>

---------------------------------------------------------------------------
(* CentralServer: the position messages and the history of each tag *)

\* The number of position messages processed in a run.
MaxMessages == 4

\* config['processing']['position_history_length'], as the configuration file
\* gives it.
HistoryLengths == { 0, 1, 2 }

MessageTimestamps == { 1, 2 }

\* The payloads of the position messages: with every key an edge node writes, or
\* with tag_id and timestamp alone.
Payloads ==
    { [ tag_id |-> tag_id, position |-> position, timestamp |-> timestamp,
        edge_node |-> edge, pallet_id |-> info, content_type |-> info ] :
        tag_id \in { "tag_1", "tag_2" }, timestamp \in MessageTimestamps,
        position \in { Some(<<1, 2, 2>>) }, edge \in { Some("edge_1") },
        info \in { Some("P1") } }
    \cup
    { [ tag_id |-> tag_id, position |-> None, timestamp |-> timestamp,
        edge_node |-> None, pallet_id |-> None, content_type |-> None ] :
        tag_id \in { "tag_1", "tag_2" }, timestamp \in MessageTimestamps }

\* The record appended to the history (lines 187-197).
position_data(payload) ==
    [ position |-> GetOr(payload.position, <<0, 0, 0>>),
      timestamp |-> payload.timestamp,
      edge_node |-> GetOr(payload.edge_node, "unknown"),
      pallet_id |-> payload.pallet_id,
      content_type |-> payload.content_type ]

\* Python's list[-n:]: the last n items, and the whole list when n = 0 or
\* n >= len(list); for n < 0 the items from index -n on.
LastItems(list, n) ==
    IF n > 0
    THEN SubSeq(list, (IF Len(list) > n THEN Len(list) - n + 1 ELSE 1), Len(list))
    ELSE SubSeq(list, 1 - n, Len(list))

\* if len(positions) > history_length: positions = positions[-history_length:]
Trimmed(positions, history_length) ==
    IF Len(positions) > history_length
    THEN LastItems(positions, history_length)
    ELSE positions

ServerInit ==
    /\ server = None
    /\ received = << >>

serverOthers == <<sensorVars, triVars, networkVars, raceVars, edgeVars, palletVars>>

\* CentralServer(config_file): the configuration is loaded, latest_positions is
\* empty.
CentralServer_init ==
    /\ IsNone(server)
    /\ \E history_length \in HistoryLengths :
         server' = Some([ position_history_length |-> history_length,
                          latest_positions |-> << >> ])
    /\ UNCHANGED <<received, serverOthers>>

\* The number of messages processed so far.
RECURSIVE Processed(_)
Processed(tags) ==
    IF tags = {} THEN 0
    ELSE LET tag == CHOOSE t \in tags : TRUE
         IN  Len(received[tag]) + Processed(tags \ { tag })

\* _process_position_message(payload), lines 166-215; without an InfluxDB
\* connection _store_position_in_influxdb returns at once.
_process_position_message ==
    /\ ~IsNone(server)
    /\ Processed(DOMAIN received) < MaxMessages
    /\ \E payload \in Payloads :
         LET self == Val(server)
             tag_id == payload.tag_id
             entry == IF tag_id \in DOMAIN self.latest_positions
                      THEN self.latest_positions[tag_id]
                      ELSE [ positions |-> << >>, last_update |-> payload.timestamp ]
             appended == Append(entry.positions, position_data(payload))
             stored == [ positions |-> Trimmed(appended, self.position_history_length),
                         last_update |-> payload.timestamp ]
         IN  /\ server' = Some([ self EXCEPT
                                   !.latest_positions = Put(self.latest_positions, tag_id, stored) ])
             /\ received' = Put(received, tag_id,
                                Append(IF tag_id \in DOMAIN received THEN received[tag_id]
                                       ELSE << >>,
                                       position_data(payload)))
    /\ UNCHANGED serverOthers

---------------------------------------------------------------------------
(* VirtualPallet: move_to, attach_tag, detach_tag *)

\* The size position_history is cut to.  The source's limit is 1000 records (lines
\* 97-98); the model runs the same code with a limit small enough for every
\* history to be enumerated.
HistoryLimit == 3

PalletPositions == { <<0, 0, 0>>, <<1, 2, 2>> }
PalletTagIds == { "tag_1", "tag_2" }

\* The timestamp argument of move_to: None (the default) or a time.
MoveTimestamps == { None, Some("t1") }

\* PositionRecord(position, timestamp)
PositionRecord(position, timestamp) == [ position |-> position, timestamp |-> timestamp ]

\* Mutant: the history keeps its oldest records.
LimitHistory_KeepOldest(history) ==
    IF Len(history) > HistoryLimit THEN SubSeq(history, 1, HistoryLimit) ELSE history

\* if len(self.position_history) > 1000:
\*     self.position_history = self.position_history[-1000:]
LimitHistory(history) ==
    IF Len(history) > HistoryLimit THEN LastItems(history, HistoryLimit) ELSE history

\* tag_id in self.tag_ids
Contains(list, item) == \E i \in 1..Len(list) : list[i] = item

\* list.remove(item): the list without the first item equal to it
RECURSIVE Remove(_, _)
Remove(list, item) ==
    IF list = << >> THEN << >>
    ELSE IF Head(list) = item THEN Tail(list)
    ELSE << Head(list) >> \o Remove(Tail(list), item)

NoPalletCall == [ op |-> "none", tag_id |-> "", tag_ids_before |-> << >>, ret |-> None ]

PalletInit ==
    /\ pallet = None
    /\ pallet_call = NoPalletCall
    /\ history_trimmed = FALSE

palletOthers == <<sensorVars, triVars, networkVars, raceVars, edgeVars, serverVars>>

\* VirtualPallet(position=...), lines 36-48.
VirtualPallet_init ==
    /\ IsNone(pallet)
    /\ \E position \in PalletPositions :
         pallet' = Some([ position |-> position,
                          position_history |-> << PositionRecord(position, "time.time()") >>,
                          tag_ids |-> << >> ])
    /\ UNCHANGED <<pallet_call, history_trimmed, palletOthers>>

\* attach_tag(tag_id), lines 57-58.
attach_tag ==
    /\ ~IsNone(pallet)
    /\ \E tag_id \in PalletTagIds :
         LET self == Val(pallet)
         IN  /\ pallet' = Some([ self EXCEPT !.tag_ids =
                                   IF ~Contains(self.tag_ids, tag_id)
                                   THEN Append(self.tag_ids, tag_id)
                                   ELSE self.tag_ids ])
             /\ pallet_call' = [ op |-> "attach_tag", tag_id |-> tag_id,
                                 tag_ids_before |-> self.tag_ids, ret |-> None ]
    /\ UNCHANGED <<history_trimmed, palletOthers>>

\* detach_tag(tag_id), lines 70-73.
detach_tag ==
    /\ ~IsNone(pallet)
    /\ \E tag_id \in PalletTagIds :
         LET self == Val(pallet)
             found == Contains(self.tag_ids, tag_id)
         IN  /\ pallet' = Some([ self EXCEPT !.tag_ids =
                                   IF found THEN Remove(self.tag_ids, tag_id)
                                   ELSE self.tag_ids ])
             /\ pallet_call' = [ op |-> "detach_tag", tag_id |-> tag_id,
                                 tag_ids_before |-> self.tag_ids, ret |-> Some(found) ]
    /\ UNCHANGED <<history_trimmed, palletOthers>>

\* move_to(position, timestamp), lines 87-100.
move_to ==
    /\ ~IsNone(pallet)
    /\ \E position \in PalletPositions, timestamp \in MoveTimestamps :
         LET self == Val(pallet)
             appended == Append(self.position_history,
                                PositionRecord(position, GetOr(timestamp, "time.time()")))
         IN  /\ pallet' = Some([ self EXCEPT !.position = position,
                                             !.position_history = LimitHistory(appended) ])
             /\ pallet_call' = [ op |-> "move_to", tag_id |-> "",
                                 tag_ids_before |-> self.tag_ids, ret |-> Some(TRUE) ]
             /\ history_trimmed' = (history_trimmed \/ Len(appended) > HistoryLimit)
    /\ UNCHANGED palletOthers

---------------------------------------------------------------------------
(* Specifications *)

\* The components that are idle in a specification about another one.
ComponentsInit == RaceInit /\ EdgeInit /\ ServerInit /\ PalletInit

\* The sensor alone: no estimator is built.
SpecSensorInit == SensorInit /\ TriInit /\ NetworkInit /\ ComponentsInit
SpecSensorNext == measure_distance
SpecSensor == SpecSensorInit /\ [][SpecSensorNext]_vars

\* The estimator alone: the sensor is idle.
SensorIdle ==
    /\ sensor = UWBSensor_init(<<0, 0, 0>>, 0, 2, DrawScale, 1)
    /\ call = NoCall
    /\ emitted = << >>
    /\ retry_seen = FALSE
    /\ gated_since = FALSE
    /\ attempted = << >>
SpecTrilaterationInit == SensorIdle /\ TriInit /\ NetworkInit /\ ComponentsInit
SpecTrilaterationNext == Trilateration_init \/ estimate_position
SpecTrilateration == SpecTrilaterationInit /\ [][SpecTrilaterationNext]_vars

\* The estimator called repeatedly on the same inputs, minimize being a function of
\* its arguments.
SpecRepeatInit == SensorIdle /\ TriInit /\ NetworkInit /\ ComponentsInit
SpecRepeatNext == Trilateration_init \/ estimate_position_repeated
SpecRepeat == SpecRepeatInit /\ [][SpecRepeatNext]_vars

\* The estimator asked for position errors.
SpecPositionErrorInit == SensorIdle /\ TriInit /\ NetworkInit /\ ComponentsInit
SpecPositionErrorNext == Trilateration_init \/ calculate_position_error
SpecPositionError == SpecPositionErrorInit /\ [][SpecPositionErrorNext]_vars

\* Two threads that each call measure_distance once on a new sensor.
SpecRaceInit == SensorIdle /\ TriInit /\ NetworkInit /\ ComponentsInit
SpecRaceNext == thread_call \/ thread_rate_gate \/ thread_stamp \/ thread_measure
SpecRace == SpecRaceInit /\ [][SpecRaceNext]_vars

\* An edge node that is set up and started, with get_status called from the
\* main thread.
SpecEdgeInit == SensorIdle /\ TriInit /\ NetworkInit /\ ComponentsInit
SpecEdgeNext ==
    \/ setup \/ start
    \/ uwb_lock_ids \/ uwb_read_ids \/ uwb_estimate \/ uwb_lock_store \/ uwb_store
    \/ publish_lock \/ publish_read
    \/ rfid_read \/ rfid_lock \/ rfid_create \/ rfid_update
    \/ status_lock \/ status_read
SpecEdge == SpecEdgeInit /\ [][SpecEdgeNext]_vars

\* A central server that processes position messages.
SpecServerInit == SensorIdle /\ TriInit /\ NetworkInit /\ ComponentsInit
SpecServerNext == CentralServer_init \/ _process_position_message
SpecServer == SpecServerInit /\ [][SpecServerNext]_vars

\* A pallet that is moved and has tags attached and detached.
SpecPalletInit == SensorIdle /\ TriInit /\ NetworkInit /\ ComponentsInit
SpecPalletNext == VirtualPallet_init \/ attach_tag \/ detach_tag \/ move_to
SpecPallet == SpecPalletInit /\ [][SpecPalletNext]_vars

\* A sensor network: sensors are added and removed, and polled together.
SpecNetworkInit == SensorIdle /\ TriInit /\ NetworkInit /\ ComponentsInit
SpecNetworkNext == add_sensor \/ remove_sensor \/ measure_distances
SpecNetwork == SpecNetworkInit /\ [][SpecNetworkNext]_vars

---------------------------------------------------------------------------
(* Claims about UWBSensor.measure_distance (checked under SpecSensor) *)

\* Whether the last call passed the rate gate, from its inputs alone.
CallPassedRateGate ==
    (call.current_time - call.old_last) * sensor.update_rate >= TicksPerSecond

\* Whether the target of the last call is within max_range.
CallTargetInRange ==
    true_distance(sensor.position, call.target_position) <= sensor.max_range

\* C1: last_measurement_time changes if and only if the call returns a
\* measurement: a call that returns None (rate gate, range cutoff, missed
\* detection) leaves it unchanged, a call that returns a distance sets it to
\* current_time.
C1_ClockAdvancesOnlyOnMeasurement ==
    call.made =>
        IF IsNone(call.ret)
        THEN sensor.last_measurement_time = call.old_last
        ELSE sensor.last_measurement_time = call.current_time

\* C2: any two calls that returned a measurement have current_time values at
\* least 1/update_rate apart.
C2_MeasurementsOnePeriodApart ==
    \A i, j \in 1..Len(emitted) :
        i < j => Abs(emitted[j] - emitted[i]) * sensor.update_rate >= TicksPerSecond

C2_Witness ==
    /\ Len(emitted) >= 3
    /\ (emitted[2] - emitted[1]) * sensor.update_rate = TicksPerSecond
    /\ call.made /\ ~IsNone(call.ret)

\* The measurements returned before the last call.
EmittedBeforeCall ==
    IF call.made /\ ~IsNone(call.ret) THEN SubSeq(emitted, 1, Len(emitted) - 1) ELSE emitted

\* C3: after a call at time t returned a measurement, every later call at t' with
\* t' - t < 1/update_rate returns None; and the first call at t' with
\* t' - t >= 1/update_rate, with the target in range and detection_probability = 1,
\* returns a measurement, whatever calls the rate gate rejected in between.
C3_GatedThenReleased ==
    call.made =>
        /\ (\E i \in 1..Len(EmittedBeforeCall) :
               (call.current_time - EmittedBeforeCall[i]) * sensor.update_rate < TicksPerSecond)
             => IsNone(call.ret)
        /\ (call.first_retry /\ CallTargetInRange /\ sensor.detection_probability = DrawScale)
             => ~IsNone(call.ret)

C3_Witness ==
    /\ call.made /\ call.first_retry /\ call.gated_before
    /\ sensor.detection_probability = DrawScale
    /\ (call.current_time - call.old_last) * sensor.update_rate = TicksPerSecond
    /\ ~IsNone(call.ret)

\* C4: with detection_probability = 0.0 every call whose target is within
\* max_range returns None, for every value of the uniform draw, 0.0 included.
C4_ZeroProbabilityNeverDetects ==
    (call.made /\ sensor.detection_probability = 0 /\ CallTargetInRange)
        => IsNone(call.ret)

\* C5: with detection_probability = 1.0 and the true distance not greater than
\* max_range, every call that passes the rate gate returns a measurement, for
\* every value of the uniform draw.
C5_CertainDetectionAlwaysMeasures ==
    (call.made /\ sensor.detection_probability = DrawScale
       /\ CallTargetInRange /\ CallPassedRateGate)
        => ~IsNone(call.ret)

C5_Witness ==
    /\ call.made /\ sensor.detection_probability = DrawScale
    /\ CallPassedRateGate
    /\ true_distance(sensor.position, call.target_position) = sensor.max_range
    /\ call.draw = Some(DrawScale - 1)
    /\ ~IsNone(call.ret)

\* C6: every value returned is >= 0 and equals max(0, true_distance + noise): a
\* noise sample that would make the distance negative yields exactly 0.
C6_ReturnedDistanceClamped ==
    (call.made /\ ~IsNone(call.ret)) =>
        LET d == true_distance(sensor.position, call.target_position)
            e == Val(call.noise)
        IN  /\ Val(call.ret) >= 0
            /\ d + e >= 0 => Val(call.ret) = d + e
            /\ d + e < 0 => Val(call.ret) = 0

C6_Witness ==
    /\ call.made /\ ~IsNone(call.ret)
    /\ true_distance(sensor.position, call.target_position) + Val(call.noise) < 0
    /\ call.ret = Some(0)

\* C20: the gates apply in the order rate gate, range cutoff, detection trial,
\* noise.  A call the rate gate or the range cutoff rejects consumes no random
\* draw; the noise sample is drawn only after the detection trial passed; a call at
\* exactly last_measurement_time + 1/update_rate is not rate-gated, and a target at
\* exactly max_range is not cut off.
C20_GatesInOrder ==
    call.made =>
        LET gated == (call.current_time - call.old_last) * sensor.update_rate < TicksPerSecond
            d == true_distance(sensor.position, call.target_position)
        IN  /\ gated => (call.gate = "rate" /\ IsNone(call.draw) /\ IsNone(call.noise))
            /\ (~gated /\ d > sensor.max_range)
                 => (call.gate = "range" /\ IsNone(call.draw) /\ IsNone(call.noise))
            /\ (~gated /\ d <= sensor.max_range) => ~IsNone(call.draw)
            /\ ~IsNone(call.noise)
                 => (~IsNone(call.draw) /\ Val(call.draw) <= sensor.detection_probability)
            /\ (call.current_time - call.old_last) * sensor.update_rate = TicksPerSecond
                 => call.gate # "rate"
            /\ (~gated /\ d = sensor.max_range) => call.gate \in { "detection", "passed" }

C20_Witness ==
    /\ call.made
    /\ (call.current_time - call.old_last) * sensor.update_rate = TicksPerSecond
    /\ true_distance(sensor.position, call.target_position) = sensor.max_range
    /\ call.gate = "passed"
    /\ ~IsNone(call.draw) /\ ~IsNone(call.noise)

\* The calls that passed the rate gate before the last call.
AttemptedBeforeCall ==
    IF call.made /\ call.gate # "rate" THEN SubSeq(attempted, 1, Len(attempted) - 1)
    ELSE attempted

\* C24: any two calls that pass the rate gate, whatever they return, are at least
\* 1/update_rate apart in current_time; a call less than 1/update_rate after a
\* call that passed the gate (and missed detection, or was out of range, or
\* measured) is rejected by the rate gate and draws no detection trial.
C24_AttemptsOnePeriodApart ==
    /\ \A i, j \in 1..Len(attempted) :
         i < j => (attempted[j] - attempted[i]) * sensor.update_rate >= TicksPerSecond
    /\ call.made =>
         ((\E i \in 1..Len(AttemptedBeforeCall) :
              Abs(call.current_time - AttemptedBeforeCall[i]) * sensor.update_rate < TicksPerSecond)
            => (call.gate = "rate" /\ IsNone(call.draw) /\ IsNone(call.ret)))

C24_Witness ==
    /\ Len(attempted) = 2
    /\ emitted = << >>
    /\ (attempted[2] - attempted[1]) * sensor.update_rate = TicksPerSecond
    /\ call.made /\ call.gate = "rate"
    /\ call.current_time > attempted[2]

\* C26: a new sensor has last_measurement_time = 0, so its first call is rejected
\* by the rate gate (and returns None) when current_time < 1/update_rate, and is
\* not rejected by it when current_time >= 1/update_rate.
C26_FirstCallGatedBeforeOnePeriod ==
    /\ ~call.made => sensor.last_measurement_time = 0
    /\ (call.made /\ call.first_call) =>
         /\ call.old_last = 0
         /\ call.current_time * sensor.update_rate < TicksPerSecond
              => (call.gate = "rate" /\ IsNone(call.ret))
         /\ call.current_time * sensor.update_rate >= TicksPerSecond
              => call.gate # "rate"

C26_Witness ==
    /\ call.made /\ call.first_call
    /\ call.current_time > 0
    /\ call.current_time * sensor.update_rate < TicksPerSecond
    /\ call.gate = "rate"

---------------------------------------------------------------------------
(* Claims about Trilateration (checked under SpecTrilateration) *)

\* Whether distances holds the exact distance of the point p from every anchor.
ExactFor(self, distances, p) ==
    /\ Len(distances) = self.num_anchors
    /\ \A i \in 1..self.num_anchors :
         /\ ~IsNone(distances[i])
         /\ Val(distances[i]) >= 0
         /\ Sq(Val(distances[i])) = SqDist(self.anchor_positions[i], p)

\* Whether some four of the anchors are not in one plane.
AnchorsNonCoplanar(self) ==
    LET a == self.anchor_positions
        d(i, j) == << a[i][1] - a[j][1], a[i][2] - a[j][2], a[i][3] - a[j][3] >>
    IN  \E i, j, k \in 2..self.num_anchors :
            Det3(<< d(i, 1), d(j, 1), d(k, 1) >>) # 0

Dot3(u, p) == u[1] * p[1] + u[2] * p[2] + u[3] * p[3]

\* C7: when every distance is the exact distance of a point p from its anchor, p
\* satisfies every equation that linear_least_squares builds (row k of A times p
\* equals b[k]), so for non-coplanar anchors the solution of Stage A, the result of
\* method 'lls', is p.
C7_ExactDistancesSolveToTarget ==
    (~IsNone(est) /\ ~IsNone(tri)) =>
        LET self == Val(tri)
            e == Val(est)
        IN  \A p \in Grid :
              ExactFor(self, e.distances, p) =>
                /\ \A k \in 1..(self.num_anchors - 1) :
                     Dot3(MatrixA(self)[k], p) = VectorB(self, e.distances)[k]
                /\ (AnchorsNonCoplanar(self) /\ e.method = "lls")
                     => e.ret = Some(Point(p))

\* C8: when len(distances) differs from the number of anchors, estimate_position
\* returns a failure for every method and calls neither the linear solve nor the
\* optimizer.
C8_MismatchSolvesNothing ==
    (~IsNone(est) /\ ~IsNone(tri)) =>
        LET e == Val(est)
        IN  Len(e.distances) # Val(tri).num_anchors
              => (IsNone(e.ret) /\ e.lstsq_calls = 0 /\ e.minimize_calls = << >>)

C8_Witness ==
    /\ ~IsNone(est) /\ ~IsNone(tri)
    /\ Val(est).method = "multi"
    /\ Len(Val(est).distances) = Val(tri).num_anchors + 1
    /\ IsNone(Val(est).ret)

\* Why a call failed, from its inputs and from what the optimizer did: an unknown
\* method, a count mismatch, or every stage tried ending without a position (an
\* entry that is None makes every stage raise).
FailureKind(self, e) ==
    IF e.method \notin KnownMethods THEN "unknown method"
    ELSE IF Len(e.distances) # self.num_anchors THEN "count mismatch"
    ELSE IF HasMissing(self, e.distances) THEN "numerical"
    ELSE IF e.minimize_calls # << >>
              /\ e.minimize_calls[Len(e.minimize_calls)].kind # "success"
         THEN "numerical"
    ELSE "none"

C10_ConstructorChecksCountOnly ==
    ~IsNone(ctor) =>
        LET c == Val(ctor)
        IN  IF Len(c.anchor_positions) < 4
            THEN c.raised /\ IsNone(tri)
            ELSE /\ ~c.raised
                 /\ ~IsNone(tri)
                 /\ Val(tri).anchor_positions = c.anchor_positions
                 /\ Val(tri).num_anchors = Len(c.anchor_positions)

C10_Witness ==
    /\ ~IsNone(ctor) /\ ~IsNone(tri)
    /\ ~Val(ctor).raised
    /\ ~AnchorsNonCoplanar(Val(tri))
    /\ \A i \in 1..Val(tri).num_anchors :
         Val(tri).anchor_positions[i][2] = 0 /\ Val(tri).anchor_positions[i][3] = 0

\* The last estimate_position call was made with this method on a list of
\* num_anchors numbers.
WellFormedCall(method) ==
    /\ ~IsNone(est) /\ ~IsNone(tri)
    /\ Val(est).method = method
    /\ Len(Val(est).distances) = Val(tri).num_anchors
    /\ ~HasMissing(Val(tri), Val(est).distances)

\* What one recorded call of minimize gave nonlinear_optimization to return.
Returned(c) == IF c.kind = "success" THEN c.x ELSE None

\* C11 as stated: when the matrix of Stage A is rank-deficient (the anchors lie in
\* one plane), Stage A counts as failed: the combined estimate does not seed the
\* optimizer with the output of the linear solve, it runs the optimizer once, from
\* the centroid of the anchors, and returns that run's result or a failure.
C11_RankDeficientRunsFromCentroid ==
    (WellFormedCall("multi") /\ ~AnchorsNonCoplanar(Val(tri))) =>
        LET e == Val(est)
        IN  /\ Len(e.minimize_calls) = 1
            /\ ~e.minimize_calls[1].given
            /\ e.minimize_calls[1].seed = Centroid(Val(tri))
            /\ e.ret = Returned(e.minimize_calls[1])

\* Every call of minimize the last estimate made ended without result.success.
NoRunConverged ==
    /\ ~IsNone(est)
    /\ Val(est).minimize_calls # << >>
    /\ \A i \in 1..Len(Val(est).minimize_calls) : Val(est).minimize_calls[i].kind = "no_success"

C13_SeededSuccessIsFinal ==
    (~IsNone(est) /\ ~IsNone(tri) /\ Val(est).method = "multi") =>
        LET e == Val(est)
            runs == e.minimize_calls
            stage_a == linear_least_squares(Val(tri), e.distances).ret
        IN  /\ Len(runs) <= 2
            /\ (~IsNone(stage_a) /\ runs # << >> /\ runs[1].given /\ runs[1].kind = "success")
                 => (Len(runs) = 1 /\ runs[1].seed = Val(stage_a) /\ e.ret = runs[1].x)
            /\ \A i \in 1..Len(runs) :
                 ~runs[i].given =>
                     \/ i = 1 /\ IsNone(stage_a)
                     \/ i = 2 /\ runs[1].given /\ runs[1].kind # "success"

C13_Witness ==
    /\ WellFormedCall("multi") /\ AnchorsNonCoplanar(Val(tri))
    /\ Len(Val(est).minimize_calls) = 1
    /\ Val(est).minimize_calls[1].given
    /\ Val(est).minimize_calls[1].seed # Centroid(Val(tri))
    /\ Val(est).ret = Some(Point(<<2, 1, 2>>))

\* Stage A returned no position for the distances of the last 'multi' call.
StageAFailed ==
    /\ ~IsNone(est) /\ ~IsNone(tri)
    /\ Val(est).method = "multi"
    /\ IsNone(linear_least_squares(Val(tri), Val(est).distances).ret)

\* C14 as stated: in 'multi', when Stage A returns no position, the optimizer is
\* run exactly once, from the arithmetic mean of the anchors, and its outcome is
\* the outcome of the estimate.
C14_FallbackRunsOptimizerOnce ==
    StageAFailed =>
        LET e == Val(est)
        IN  /\ Len(e.minimize_calls) = 1
            /\ ~e.minimize_calls[1].given
            /\ e.minimize_calls[1].seed = Centroid(Val(tri))
            /\ e.ret = Returned(e.minimize_calls[1])

\* C14 as amended: in 'multi', when Stage A returns no position and the number of
\* distances matches, the optimizer is run exactly once, from the arithmetic mean
\* of the anchors, and its outcome is the outcome of the estimate; when the number
\* of distances does not match, the optimizer is not run and the estimate is None.
C14_FallbackRunsOnceUnlessMismatch ==
    StageAFailed =>
        LET e == Val(est)
        IN  IF Len(e.distances) = Val(tri).num_anchors
            THEN /\ Len(e.minimize_calls) = 1
                 /\ ~e.minimize_calls[1].given
                 /\ e.minimize_calls[1].seed = Centroid(Val(tri))
                 /\ e.ret = Returned(e.minimize_calls[1])
            ELSE e.minimize_calls = << >> /\ IsNone(e.ret)

C14_Witness ==
    /\ StageAFailed
    /\ Len(Val(est).distances) = Val(tri).num_anchors
    /\ Val(est).lstsq_calls = 0
    /\ Len(Val(est).minimize_calls) = 1
    /\ Val(est).minimize_calls[1].seed = Centroid(Val(tri))

\* C15: no exception leaves estimate_position, whatever the list of distances
\* (wrong length, None entries, values on which the optimizer raises) and the
\* method: every error inside a stage ends that stage with None and a logged
\* message, and when every run of the optimizer raises the estimate is None.
C15_NoExceptionEscapes ==
    (~IsNone(est) /\ ~IsNone(tri)) =>
        LET e == Val(est)
            n == Val(tri).num_anchors
            runs == e.minimize_calls
        IN  /\ ~e.raised
            /\ Len(e.distances) # n => IsNone(e.ret)
            /\ (Len(e.distances) = n /\ HasMissing(Val(tri), e.distances))
                 => (IsNone(e.ret) /\ e.log # << >>)
            /\ (runs # << >> /\ \A i \in 1..Len(runs) : runs[i].kind = "raise")
                 => (IsNone(e.ret) /\ e.log[Len(e.log)] = MsgOptRaised)

C15_Witness ==
    /\ ~IsNone(est) /\ ~IsNone(tri)
    /\ Val(est).method = "multi"
    /\ Len(Val(est).distances) = Val(tri).num_anchors
    /\ HasMissing(Val(tri), Val(est).distances)
    /\ Val(est).log = << MsgLlsRaised, MsgOptRaised >>
    /\ IsNone(Val(est).ret) /\ ~Val(est).raised

---------------------------------------------------------------------------
(* Claims about repeated calls of the estimator (checked under SpecRepeat) *)

\* The last call has the inputs of the remembered earlier call.
SameInputsAsEarlier ==
    /\ ~IsNone(est) /\ ~IsNone(earlier)
    /\ Val(est).distances = Val(earlier).distances
    /\ Val(est).method = Val(earlier).method

\* C16: estimate_position is stateless and deterministic: no call changes
\* anchor_positions, num_anchors or anything else the estimator holds, and a call
\* returns what an earlier call with the same distances and method returned,
\* whatever calls were made in between.
C16_StatelessAndRepeatable ==
    [][ /\ ~IsNone(tri) => tri' = tri
        /\ SameInputsAsEarlier' => Val(est').ret = Val(earlier').ret ]_vars

C16_Witness ==
    /\ SameInputsAsEarlier
    /\ Val(earlier).between
    /\ Val(est).method = "multi"
    /\ Len(Val(est).minimize_calls) = 2
    /\ ~IsNone(Val(est).ret)

---------------------------------------------------------------------------
(* Claims about calculate_position_error (checked under SpecPositionError) *)

\* C23: calculate_position_error returns the Euclidean distance of its two
\* arguments: it is non-negative, zero when the two points are equal, the same
\* with the arguments exchanged, and the call changes nothing the estimator holds.
C23_ErrorIsEuclideanDistance ==
    [][ /\ ~IsNone(tri) => tri' = tri
        /\ ~IsNone(err') =>
              LET e == Val(err')
              IN  /\ e.ret >= 0
                  /\ Sq(e.ret) = SqDist(e.true_position, e.estimated_position)
                  /\ e.true_position = e.estimated_position => e.ret = 0
                  /\ e.ret = calculate_position_error_result(e.estimated_position,
                                                             e.true_position) ]_vars

C23_Witness ==
    /\ ~IsNone(err) /\ ~IsNone(tri)
    /\ Val(err).true_position = <<0, 3, 4>>
    /\ Val(err).estimated_position = <<0, 0, 0>>
    /\ Val(err).ret = 5

---------------------------------------------------------------------------
(* Claims about UWBSensorNetwork (checked under SpecNetwork) *)

\* C19: measure_distances polls every sensor of the network exactly once, each
\* with the current_time of the call, and returns a mapping whose keys are exactly
\* the sensors whose measure_distance returned a value, with that value: a sensor
\* that was gated, out of range or missed has no entry.
C19_KeysAreTheSensorsThatMeasured ==
    net_call.made =>
        LET polls == net_call.polls
            measured == { i \in 1..Len(polls) : ~IsNone(polls[i].ret) }
        IN  /\ [ i \in 1..Len(polls) |-> polls[i].sensor_id ] = net_call.sensor_ids
            /\ \A i, j \in 1..Len(polls) : polls[i].sensor_id = polls[j].sensor_id => i = j
            /\ \A i \in 1..Len(polls) : polls[i].current_time = net_call.current_time
            /\ DOMAIN net_call.measurements = { polls[i].sensor_id : i \in measured }
            /\ \A i \in measured : net_call.measurements[polls[i].sensor_id] = Val(polls[i].ret)

C19_Witness ==
    /\ net_call.made
    /\ Len(net_call.polls) = 2
    /\ \E i, j \in 1..2 :
         /\ net_call.polls[i].gate = "passed"
         /\ net_call.polls[j].gate = "detection"
    /\ Cardinality(DOMAIN net_call.measurements) = 1

\* C25: a measure_distance call made with the current_time of the previous call
\* on the same sensor returns None; so a second measure_distances call with the
\* current_time of the one before it, on the same sensors, polls only None and
\* returns an empty mapping, whatever the first call returned.
C25_SameTimeMeasuresNothing ==
    (net_call.made /\ net_call.repeat) =>
        /\ \A i \in 1..Len(net_call.polls) :
             IsNone(net_call.polls[i].ret) /\ net_call.polls[i].gate = "rate"
        /\ DOMAIN net_call.measurements = {}

C25_Witness ==
    /\ net_call.made /\ net_call.repeat
    /\ Len(net_call.polls) = 2
    /\ net_call.previous_measured = 2
    /\ DOMAIN net_call.measurements = {}

---------------------------------------------------------------------------
(* Claims about concurrent calls of measure_distance (checked under SpecRace) *)

\* Both threads have returned a measurement, for times less than 1/update_rate
\* apart.
BothMeasuredWithinOnePeriod ==
    /\ \A t \in Threads : threads[t].pc = "done" /\ ~IsNone(threads[t].ret)
    /\ Abs(threads["A"].current_time - threads["B"].current_time) * sensor.update_rate
         < TicksPerSecond

\* C21: measure_distance has no synchronization of its own.  Two concurrent calls
\* on one sensor can both pass the rate check before either assigns
\* last_measurement_time, and then both return a measurement less than
\* 1/update_rate apart; that interleaving is the only way for two calls so close to
\* both return a measurement.
C21_DoubleMeasurementByRace ==
    BothMeasuredWithinOnePeriod =>
        \A t \in Threads : threads[t].wrote /\ ~threads[t].saw_write

C21_Witness ==
    /\ BothMeasuredWithinOnePeriod
    /\ threads["A"].current_time # threads["B"].current_time
    /\ \A t \in Threads : ~threads[t].saw_write

---------------------------------------------------------------------------
(* Claims about EdgeNode (checked under SpecEdge) *)

EdgeThreads == { "uwb", "rfid", "status" }
Pc(thread) == IF thread = "uwb" THEN uwb.pc ELSE IF thread = "rfid" THEN rfid.pc ELSE status.pc

\* Where a thread is about to read or write latest_positions.
AccessPcs == { "uwb_read_ids", "uwb_store", "publish_read", "rfid_create", "rfid_update",
               "status_read" }

\* Where a thread is about to request data_lock.
RequestPcs == { "uwb_lock_ids", "uwb_lock_store", "publish_lock", "rfid_lock", "status_idle" }

HasTagInfo(positions, tag) ==
    /\ tag \in DOMAIN positions
    /\ ~IsNone(positions[tag].pallet_id)
    /\ ~IsNone(positions[tag].content_type)

\* An entry the RFID loop has created and not yet filled in.
HalfUpdated(entry) == entry.position = DummyPosition /\ ~entry.last_seen

C28_AccessUnderLock ==
    /\ \A t \in EdgeThreads : Pc(t) \in AccessPcs => data_lock = Some(t)
    /\ \A t \in EdgeThreads : Pc(t) \in RequestPcs => data_lock # Some(t)
    /\ ~IsNone(data_lock) => Pc(Val(data_lock)) \in AccessPcs
    /\ ~IsNone(status.tags) =>
           \A tag \in DOMAIN Val(status.tags) : ~HalfUpdated(Val(status.tags)[tag])

\* The RFID loop is between creating an entry and filling it in, while the UWB
\* loop waits to publish and get_status has returned before.
C28_Witness ==
    /\ rfid.pc = "rfid_update"
    /\ HalfUpdated(latest_positions[Head(rfid.all_tags).tag_id])
    /\ uwb.pc = "publish_lock"
    /\ ~IsNone(status.tags)
    /\ data_lock = Some("rfid")

---------------------------------------------------------------------------
(* Claims about CentralServer (checked under SpecServer) *)

\* The stored history of a tag is the last entries received for it, in arrival
\* order, and at most history_length of them.
HistoryIsLatest(tag, history_length) ==
    LET stored == Val(server).latest_positions[tag].positions
        arrived == received[tag]
    IN  /\ Len(stored) <= history_length
        /\ Len(stored) = (IF Len(arrived) < history_length THEN Len(arrived) ELSE history_length)
        /\ stored = SubSeq(arrived, Len(arrived) - Len(stored) + 1, Len(arrived))

\* C29: after any sequence of position messages, each tag's stored history holds
\* at most position_history_length entries, the most recently received ones in
\* arrival order, and last_update is the timestamp of the last message processed
\* for that tag.
C29_HistoryBoundedAndLatest ==
    ~IsNone(server) =>
        \A tag \in DOMAIN Val(server).latest_positions :
            /\ HistoryIsLatest(tag, Val(server).position_history_length)
            /\ Val(server).latest_positions[tag].last_update
                   = received[tag][Len(received[tag])].timestamp

---------------------------------------------------------------------------
(* Claims about VirtualPallet (checked under SpecPallet) *)

NoDuplicates(list) == \A i, j \in 1..Len(list) : list[i] = list[j] => i = j

\* C30: after any sequence of move_to, attach_tag and detach_tag calls,
\* position_history holds at most the limit of records and its last record is the
\* current position, tag_ids holds no tag twice, and detach_tag returns True
\* exactly when the tag was attached and leaves tag_ids as it was otherwise.
C30_PalletHistoryAndTags ==
    ~IsNone(pallet) =>
        LET self == Val(pallet)
        IN  /\ Len(self.position_history) <= HistoryLimit
            /\ Len(self.position_history) >= 1
            /\ self.position_history[Len(self.position_history)].position = self.position
            /\ NoDuplicates(self.tag_ids)
            /\ pallet_call.op = "detach_tag" =>
                   /\ pallet_call.ret = Some(Contains(pallet_call.tag_ids_before, pallet_call.tag_id))
                   /\ ~Contains(pallet_call.tag_ids_before, pallet_call.tag_id) =>
                          self.tag_ids = pallet_call.tag_ids_before
                   /\ ~Contains(self.tag_ids, pallet_call.tag_id)

\* A tag is detached from a pallet that carries two, after the history was cut
\* and the pallet had moved away from where it started.
C30_Witness ==
    /\ ~IsNone(pallet)
    /\ pallet_call.op = "detach_tag"
    /\ pallet_call.ret = Some(TRUE)
    /\ Len(pallet_call.tag_ids_before) = 2
    /\ history_trimmed
    /\ Len(Val(pallet).position_history) = HistoryLimit
    /\ Val(pallet).position_history[1].position # Val(pallet).position

=============================================================================
